---- MODULE Spec2Model ----
(***************************************************************************)
(* Model of the data normalisation and selection layer of openPMD-viewer:  *)
(*   - apply_selection        (openpmd_timeseries/utilities.py)            *)
(*   - read_field_cartesian   (data_reader/yt_reader/field_reader.py)      *)
(*   - get_data               (data_reader/h5py_reader/utilities.py)       *)
(*   - read_openPMD_params,                                                *)
(*     simplify_record        (data_reader/yt_reader/params_reader.py)     *)
(*   - read_species_data      (data_reader/yt_reader/particle_reader.py)   *)
(* The functions are pure: each specification draws the arguments of one   *)
(* call in its initial state (pc = "call", the arguments in args) and one  *)
(* action runs the call to completion (pc = "done", the result or the      *)
(* exception in ret).                                                      *)
(***************************************************************************)
EXTENDS Integers, Sequences, FiniteSets, TLC

VARIABLES pc, args, ret

vars == <<pc, args, ret>>

\* No call has returned yet.
NoRet == [err |-> "pending"]

(***************************************************************************)
(* Generic helpers                                                         *)
(***************************************************************************)
SeqSum(s) ==
  LET RECURSIVE Go(_)
      Go(i) == IF i > Len(s) THEN 0 ELSE s[i] + Go(i + 1)
  IN Go(1)

\* The entries of a list, as a set ("x in L").
Range(s) == {s[i] : i \in DOMAIN s}

(***************************************************************************)
(* numpy pieces used by apply_selection.  None is the empty sequence <<>>, *)
(* a present bound b is <<b>>.                                             *)
(***************************************************************************)
None == <<>>
IsNone(b) == Len(b) = 0

\* A numpy result: the array, or the exception numpy raised instead.
Array(v) == [ok |-> TRUE, v |-> v]
Raised(e) == [ok |-> FALSE, error |-> e]

\* np.ones(n, dtype='bool')
Ones(n) == [i \in 1..n |-> TRUE]

\* A lower bound that also lets through a value equal to it.
GreaterOrEqual(q, bound) == [i \in 1..Len(q) |-> q[i] >= bound]

\* An upper bound that also lets through a value equal to it.
LessOrEqual(q, bound) == [i \in 1..Len(q) |-> q[i] <= bound]

\* q > bound, elementwise
Greater(q, bound) == [i \in 1..Len(q) |-> q[i] > bound]

\* q < bound, elementwise
Less(q, bound) == [i \in 1..Len(q) |-> q[i] < bound]

\* np.logical_and(a, b) with numpy broadcasting of 1d arrays: equal lengths,
\* or one operand of length 1 that is stretched; anything else raises.
LogicalAnd(a, b) ==
  IF Len(a) = Len(b) THEN Array([i \in 1..Len(a) |-> a[i] /\ b[i]])
  ELSE IF Len(a) = 1 THEN Array([i \in 1..Len(b) |-> a[1] /\ b[i]])
  ELSE IF Len(b) = 1 THEN Array([i \in 1..Len(a) |-> a[i] /\ b[1]])
  ELSE Raised("ValueError")

\* arr[mask] for a boolean mask: the entries of arr where mask is true, in
\* order; numpy raises IndexError when the mask's length is not arr's.
BoolIndex(arr, mask) ==
  IF Len(mask) # Len(arr) THEN Raised("IndexError")
  ELSE LET RECURSIVE Take(_)
           Take(i) == IF i > Len(arr) THEN <<>>
                      ELSE IF mask[i] THEN <<arr[i]>> \o Take(i + 1)
                      ELSE Take(i + 1)
       IN Array(Take(1))

(***************************************************************************)
(* apply_selection( data_reader, data_list, select, species, extensions )  *)
(*   data_reader : quantity name -> array (read_species_data of a species) *)
(*   select      : quantity name -> <<lower, upper>>, each None or <<b>>   *)
(***************************************************************************)
\* Lines 53-56: the lower bound of one rule.
CheckLower(select_array, q, lower) ==
  IF IsNone(lower) \/ ~select_array.ok THEN select_array
  ELSE LogicalAnd(select_array.v, Greater(q, lower[1]))

\* Lines 58-61: the upper bound of one rule.
CheckUpper(select_array, q, upper) ==
  IF IsNone(upper) \/ ~select_array.ok THEN select_array
  ELSE LogicalAnd(select_array.v, Less(q, upper[1]))

\* Lines 46-61: the keep-mask after the loop over select.keys().
SelectArray(data_reader, data_list, select) ==
  LET Ntot == Len(data_list[1])
      RECURSIVE Loop(_, _)
      Loop(keys, select_array) ==
        IF keys = {} THEN select_array
        ELSE LET quantity == CHOOSE k \in keys : TRUE
                 q == data_reader[quantity]
             IN Loop(keys \ {quantity},
                     CheckUpper(CheckLower(select_array, q, select[quantity][1]),
                                q, select[quantity][2]))
  IN Loop(DOMAIN select, Array(Ones(Ntot)))

\* Lines 64-66: one array of data_list after the reduction.
Reduce(arr, select_array) ==
  IF Len(arr) > 1 THEN BoolIndex(arr, select_array) ELSE Array(arr)

\* The whole call: the returned list and the mask it was built with, or the
\* exception that escaped.
apply_selection(data_reader, data_list, select) ==
  LET select_array == SelectArray(data_reader, data_list, select)
      out == [i \in 1..Len(data_list) |->
                Reduce(data_list[i], select_array.v)]
  IN IF ~select_array.ok THEN [err |-> select_array.error]
     ELSE IF \E i \in 1..Len(out) : ~out[i].ok THEN [err |-> "IndexError"]
     ELSE [err |-> "none",
           data_list |-> [i \in 1..Len(out) |-> out[i].v],
           select_array |-> select_array.v]

(***************************************************************************)
(* Arguments of apply_selection                                            *)
(***************************************************************************)
MaxN == 3              \* most macroparticles of a species
MaxArrays == 2         \* most arrays in data_list

Quantities == {"x", "ux"}
\* Per-particle values of each quantity, and the bounds the rules use: the
\* values lie below, on and above a bound.
Vals == [x |-> {0, 1, 2}, ux |-> {1, 2}]
Thresholds == {1}
Bounds == {None} \cup {<<t>> : t \in Thresholds}

\* The species as the data reader serves it: every quantity, one value per
\* macroparticle.
Species(N) == [x : [1..N -> Vals["x"]], ux : [1..N -> Vals["ux"]]]

RuleSets == UNION {[S -> Bounds \X Bounds] : S \in SUBSET Quantities}

\* A per-particle array with distinct entries, and a scalar record.
Ids(N) == [i \in 1..N |-> 10 + i]
ScalarRecord == <<7>>

DataLists(N) ==
  UNION {[1..k -> {Ids(N), ScalarRecord}] : k \in 1..MaxArrays}

\* The worked example of the specification.
ExampleSelection ==
  [fn |-> "apply_selection",
   data_reader |-> [q |-> <<0, 1, 2, 3, 4>>],
   data_list |-> << <<1, 2, 3, 4, 5>> >>,
   select |-> [q |-> << <<1>>, <<3>> >>]]

InitSelection ==
  /\ pc = "call"
  /\ ret = NoRet
  /\ \/ args = ExampleSelection
     \/ \E N \in 1..MaxN :
          \E r \in Species(N), d \in DataLists(N), s \in RuleSets :
            args = [fn |-> "apply_selection", data_reader |-> r,
                    data_list |-> d, select |-> s]

ApplySelection ==
  /\ pc = "call"
  /\ args.fn = "apply_selection"
  /\ ret' = apply_selection(args.data_reader, args.data_list, args.select)
  /\ pc' = "done"
  /\ UNCHANGED args

NextSelection == ApplySelection

SpecSelection == InitSelection /\ [][NextSelection]_vars

(***************************************************************************)
(* read_field_cartesian( filename, field, coord, axis_labels, slicing,     *)
(*                       slicing_dir )                                     *)
(* The yt dataset ds is given by its dimensionality, domain_dimensions,    *)
(* domain_width and domain_left_edge.  yt keeps three entries in each of   *)
(* the domain_* arrays whatever the dimensionality (covering_grid takes    *)
(* dims=ds.domain_dimensions, and the catalog publishes the axis labels    *)
(* x, y, z for every dataset); the axes beyond the dimensionality have one *)
(* cell.  The field array F is its list of axes: for each axis the cells   *)
(* of the full grid, by index, that it still holds.                        *)
(* A slicing position is a fraction PosNum / PosDen; PosDen is a power of  *)
(* two, so the floating-point product of line 86 is exact.                 *)
(***************************************************************************)
PosDen == 4

\* int(): truncation towards zero of num / den, den > 0.
TruncDiv(num, den) ==
  IF num >= 0 THEN num \div den ELSE -((-num) \div den)

\* Rounding to the nearest integer, ties to even, of num / den, den > 0.
RoundDiv(num, den) ==
  LET fl == num \div den
      twice == 2 * (num - fl * den)
  IN IF twice < den THEN fl
     ELSE IF twice > den THEN fl + 1
     ELSE IF fl % 2 = 0 THEN fl ELSE fl + 1

Max(a, b) == IF a >= b THEN a ELSE b
Min(a, b) == IF a <= b THEN a ELSE b

\* The index computed with rounding to nearest instead of int().
RoundedCell(pos, n_cells) == RoundDiv((pos + PosDen) * n_cells, 2 * PosDen)

\* Line 86: int( 0.5 * (slicing[count] + 1.) * n_cells )
IntCell(pos, n_cells) == TruncDiv((pos + PosDen) * n_cells, 2 * PosDen)

\* The index without the upper clamp.
UnclampedCell(pos, n_cells) == Max(IntCell(pos, n_cells), 0)

\* Lines 86-88: the index of the slice, kept inside the array.
ICell(pos, n_cells) == Min(Max(IntCell(pos, n_cells), 0), n_cells - 1)

\* axis_labels.index(item), 0-based
IndexOf(labels, item) == (CHOOSE i \in 1..Len(labels) : labels[i] = item) - 1

\* Lines 93-102: [ x for index, x in enumerate(L)
\*                 if index not in list_slicing_index ]
RemoveSliced(L, list_slicing_index) ==
  LET Unsliced(i) == (i - 1) \notin Range(list_slicing_index)
  IN [k \in 1..Len(SelectSeq([i \in 1..Len(L) |-> i], Unsliced)) |->
        L[SelectSeq([i \in 1..Len(L) |-> i], Unsliced)[k]]]

\* Line 67: the full array of the covering grid.
FullArray(dims) == [a \in 1..Len(dims) |-> [c \in 1..dims[a] |-> c - 1]]

\* F.shape
ShapeOf(F) == [a \in 1..Len(F) |-> Len(F[a])]

\* Line 89: np.take( F, [i_cell], axis ); IndexError past the axis' end.
NpTake(F, i_cell, axis) ==
  IF i_cell >= Len(F[axis + 1]) THEN Raised("IndexError")
  ELSE Array([F EXCEPT ![axis + 1] = <<F[axis + 1][i_cell + 1]>>])

\* Line 90: np.squeeze( F ) drops every axis of length one.
NpSqueeze(F) ==
  LET Wide(a) == Len(a) # 1 IN SelectSeq(F, Wide)

\* Lines 79-89: the loop over slicing_dir; the state of the loop is the
\* array, list_slicing_index and the indices i_cell taken so far.
SliceLoop(F0, shape, axis_labels, slicing, slicing_dir) ==
  LET RECURSIVE Loop(_, _)
      Loop(count, st) ==
        IF count > Len(slicing_dir) \/ ~st.F.ok THEN st
        ELSE LET slicing_index == IndexOf(axis_labels, slicing_dir[count])
                 n_cells == shape[slicing_index + 1]
                 i_cell == ICell(slicing[count], n_cells)
             IN Loop(count + 1,
                     [F |-> NpTake(st.F.v, i_cell, slicing_index),
                      list_slicing_index |->
                        Append(st.list_slicing_index, slicing_index),
                      i_cells |-> Append(st.i_cells, i_cell)])
  IN Loop(1, [F |-> Array(F0), list_slicing_index |-> <<>>, i_cells |-> <<>>])

\* The whole call.  slicing_dir is None or <<list>>.
read_field_cartesian(ds, axis_labels, slicing, slicing_dir) ==
  LET F == FullArray(ds.domain_dimensions)
      shape == ds.domain_dimensions
      grid_spacing == [a \in 1..Len(shape) |->
                         ds.domain_width[a] \div ds.domain_dimensions[a]]
      global_offset == ds.domain_left_edge
      grid_position == [a \in 1..ds.dimensionality |-> 0]
  IN IF IsNone(slicing_dir)
     THEN [err |-> "none", F |-> F, i_cells |-> <<>>,
           info |-> [axes |-> axis_labels, shape |-> shape,
                     grid_spacing |-> grid_spacing,
                     global_offset |-> global_offset,
                     grid_unit_si |-> 1,
                     grid_position |-> grid_position]]
     ELSE LET st == SliceLoop(F, shape, axis_labels, slicing, slicing_dir[1])
              lsi == st.list_slicing_index
          IN IF ~st.F.ok THEN [err |-> st.F.error, i_cells |-> st.i_cells]
             ELSE [err |-> "none", F |-> NpSqueeze(st.F.v),
                   i_cells |-> st.i_cells,
                   info |-> [axes |-> RemoveSliced(axis_labels, lsi),
                             shape |-> RemoveSliced(shape, lsi),
                             grid_spacing |-> RemoveSliced(grid_spacing, lsi),
                             global_offset |-> RemoveSliced(global_offset, lsi),
                             grid_unit_si |-> 1,
                             grid_position |->
                               RemoveSliced(grid_position, lsi)]]

(***************************************************************************)
(* Arguments of read_field_cartesian                                       *)
(***************************************************************************)
MaxCells == 3          \* most cells along one axis
MaxSlices == 2         \* most entries of slicing_dir

\* metadata['axis_labels'] of the catalog: "Standard in yt".
YtAxisLabels == <<"x", "y", "z">>

\* Numerators of the slicing positions: -1.5, -1, 0, 0.25, 1 and 1.5.
Positions == {-6, -4, 0, 1, 4, 6}

\* Cell sizes and lower edges of the three axes.
CellWidth == <<2, 3, 5>>
LeftEdge == <<-10, -20, -30>>

\* A dataset of dimensionality d: axes past d have a single cell.
Datasets(d) ==
  {[dimensionality |-> d,
    domain_dimensions |-> dims,
    domain_width |-> [a \in 1..3 |-> dims[a] * CellWidth[a]],
    domain_left_edge |-> LeftEdge] :
   dims \in {n \in [1..3 -> 1..MaxCells] : \A a \in 1..3 : a > d => n[a] = 1}}

InitField ==
  /\ pc = "call"
  /\ ret = NoRet
  /\ \E d \in 1..3 : \E ds \in Datasets(d) :
       \/ args = [fn |-> "read_field_cartesian", ds |-> ds,
                  axis_labels |-> YtAxisLabels, slicing |-> None,
                  slicing_dir |-> None]
       \/ \E k \in 0..MaxSlices :
            \E dirs \in [1..k -> Range(YtAxisLabels)],
               slicing \in [1..k -> Positions] :
              args = [fn |-> "read_field_cartesian", ds |-> ds,
                      axis_labels |-> YtAxisLabels, slicing |-> <<slicing>>,
                      slicing_dir |-> <<dirs>>]

ReadFieldCartesian ==
  /\ pc = "call"
  /\ args.fn = "read_field_cartesian"
  /\ ret' = read_field_cartesian(
              args.ds, args.axis_labels,
              IF IsNone(args.slicing) THEN None ELSE args.slicing[1],
              args.slicing_dir)
  /\ pc' = "done"
  /\ UNCHANGED args

NextField == ReadFieldCartesian

SpecField == InitField /\ [][NextField]_vars

(***************************************************************************)
(* get_data( dset, i_slice, pos_slice, output_type )                       *)
(* An n-dimensional array is [shape, v, dtype], v mapping each coordinate  *)
(* (0-based, one entry per axis) to its value.  A value is a number of     *)
(* halves (3 is 1.5), which every floating type holds exactly.             *)
(* dset is an h5py.Group (a constant record: attrs value, shape, unitSI)   *)
(* or an h5py.Dataset (an array on file: data, attrs unitSI).              *)
(* i_slice and pos_slice are [t |-> "None"], [t |-> "int", v |-> n] or     *)
(* [t |-> "list", v |-> <<...>>].                                          *)
(***************************************************************************)
ValDen == 2

Coords(shape) ==
  {c \in [1..Len(shape) -> 0..Max(0, SeqSum(shape))] :
     \A a \in 1..Len(shape) : c[a] < shape[a]}

\* Line 175: the output types that are scaled.
FloatTypes == {"float64", "float32", "float16"}

\* Lines 138-141: a value that is not a list becomes a one-element list.
AsList(x) == IF x.t = "int" THEN [t |-> "list", v |-> <<x.v>>] ELSE x

\* The restricted shape with every axis up to the largest sliced one removed.
RestrictShapeUpTo(shape, pos_slice) ==
  LET Kept(i) == \A p \in Range(pos_slice) : (i - 1) > p
      idx == SelectSeq([i \in 1..Len(shape) |-> i], Kept)
  IN [k \in 1..Len(idx) |-> shape[idx[k]]]

\* Lines 147-148: [ x for index, x in enumerate(shape)
\*                  if index not in pos_slice ]
RestrictShape(shape, pos_slice) ==
  LET Kept(i) == (i - 1) \notin Range(pos_slice)
      idx == SelectSeq([i \in 1..Len(shape) |-> i], Kept)
  IN [k \in 1..Len(idx) |-> shape[idx[k]]]

\* Line 150: dset.attrs['value'] * np.ones(shape), a float64 array.
ConstantData(value, shape) ==
  [shape |-> shape, v |-> [c \in Coords(shape) |-> value], dtype |-> "float64"]

\* The index list filled by count instead of by direction:
\* list_index[count] = i_slice[count].
ListIndexByCount(pos_slice, i_slice) ==
  LET max_pos == CHOOSE m \in Range(pos_slice) :
                   \A p \in Range(pos_slice) : p <= m
      blank == [k \in 1..(max_pos + 2) |->
                  IF k = max_pos + 2 THEN [t |-> "ellipsis"]
                  ELSE [t |-> "slice"]]
      RECURSIVE Fill(_, _)
      Fill(count, list_index) ==
        IF count > Len(pos_slice) THEN list_index
        ELSE Fill(count + 1,
                  [list_index EXCEPT
                     ![count] = [t |-> "int", i |-> i_slice[count]]])
  IN Fill(1, blank)

\* Lines 158-165: list_index, [:, :, ..., Ellipsis] with the entries of the
\* sliced directions replaced by their index.
ListIndex(pos_slice, i_slice) ==
  LET max_pos == CHOOSE m \in Range(pos_slice) :
                   \A p \in Range(pos_slice) : p <= m
      blank == [k \in 1..(max_pos + 2) |->
                  IF k = max_pos + 2 THEN [t |-> "ellipsis"]
                  ELSE [t |-> "slice"]]
      RECURSIVE Fill(_, _)
      Fill(count, list_index) ==
        IF count > Len(pos_slice) THEN list_index
        ELSE Fill(count + 1,
                  [list_index EXCEPT
                     ![pos_slice[count] + 1] =
                        [t |-> "int", i |-> i_slice[count]]])
  IN Fill(1, blank)

\* Line 169: dset[tuple_index] for a tuple that ends in an Ellipsis.  An
\* integer entry fixes its axis and drops it, a slice keeps its axis whole,
\* the Ellipsis keeps the axes that are left; h5py raises when the tuple
\* names more axes than the dataset has or an index lies outside its axis.
IndexDataset(data, tuple_index) ==
  LET ndim == Len(data.shape)
      named == Len(tuple_index) - 1
      Entry(a) == IF a <= named THEN tuple_index[a] ELSE [t |-> "slice"]
      Whole(a) == Entry(a).t = "slice"
      kept == SelectSeq([a \in 1..ndim |-> a], Whole)
      shape == [k \in 1..Len(kept) |-> data.shape[kept[k]]]
      Source(c) ==
        [a \in 1..ndim |->
           IF Whole(a)
           THEN c[CHOOSE k \in 1..Len(kept) : kept[k] = a]
           ELSE Entry(a).i]
  IN IF named > ndim THEN Raised("TypeError")
     ELSE IF \E a \in 1..named :
               Entry(a).t = "int" /\ Entry(a).i \notin 0..(data.shape[a] - 1)
     THEN Raised("ValueError")
     ELSE Array([shape |-> shape,
                 v |-> [c \in Coords(shape) |-> data.v[Source(c)]],
                 dtype |-> data.dtype])

\* One value converted to a type: an integer type drops the fraction
\* (towards zero), a floating type holds the halves as they are.
CastValue(x, type) ==
  IF type \in {"int64", "uint64"} THEN ValDen * TruncDiv(x, ValDen) ELSE x

\* Lines 172-173: data.astype( output_type ) when the types differ.
AsType(data, output_type) ==
  IF data.dtype # output_type
  THEN [shape |-> data.shape,
        v |-> [c \in DOMAIN data.v |-> CastValue(data.v[c], output_type)],
        dtype |-> output_type]
  ELSE data

\* The scaling applied whatever the output type.
ScaleAlways(data, unitSI, output_type) ==
  [data EXCEPT !.v = [c \in DOMAIN data.v |-> data.v[c] * unitSI]]

\* Lines 175-177: data *= unitSI for a floating output type, unless unitSI
\* is 1.0.
Scale(data, unitSI, output_type) ==
  IF output_type \in FloatTypes /\ unitSI # 1
  THEN [data EXCEPT !.v = [c \in DOMAIN data.v |-> data.v[c] * unitSI]]
  ELSE data

\* Lines 138-169: the data before conversion and scaling.
ExtractData(dset, i_slice, pos_slice) ==
  IF dset.kind = "Group"
  THEN Array(ConstantData(
               dset.attrs.value,
               IF pos_slice.t # "None"
               THEN RestrictShape(dset.attrs.shape, pos_slice.v)
               ELSE dset.attrs.shape))
  ELSE IF pos_slice.t = "None" THEN Array(dset.data)
  ELSE IF Len(pos_slice.v) = 0 THEN Raised("ValueError")
  ELSE IndexDataset(dset.data, ListIndex(pos_slice.v, i_slice.v))

\* The whole call.  The array worked on is a fresh one (read from the file,
\* or built by np.ones), so the in-place scaling never reaches dset.
get_data(dset, i_slice, pos_slice, output_type) ==
  LET data == ExtractData(dset, AsList(i_slice), AsList(pos_slice))
  IN IF ~data.ok THEN [err |-> data.error, dset |-> dset]
     ELSE [err |-> "none",
           data |-> Scale(AsType(data.v, output_type),
                          dset.attrs.unitSI, output_type),
           dset |-> dset]

(***************************************************************************)
(* Arguments of get_data                                                   *)
(***************************************************************************)
MaxDim == 3            \* most axes of a record

\* The axes have 2, 3 and 1 cells in turn, so that no two neighbours agree.
AxisSize(a) == 1 + (a % 3)
RecordShape(ndim) == [a \in 1..ndim |-> AxisSize(a)]

\* The cell at coordinate c holds a value of its own: -1.5, -0.5, 0.5, ...
\* in a float64 dataset and -1, 0, 1, ... in an int64 dataset.
CellCode(c) ==
  LET RECURSIVE Go(_)
      Go(a) == IF a > Len(c) THEN 0 ELSE c[a] + 3 * Go(a + 1)
  IN Go(1)
CellValue(c, dtype) ==
  IF dtype = "float64" THEN 2 * CellCode(c) - 3 ELSE 2 * (CellCode(c) - 1)

UnitFactors == {1, 2}             \* unitSI 1.0 and 2.0
ConstantValues == {10, -3}        \* 5.0 and -1.5
OutputTypes == FloatTypes \cup {"int64"}
NoSlice == [t |-> "None"]

Groups(shape) ==
  {[kind |-> "Group",
    attrs |-> [value |-> v, shape |-> shape, unitSI |-> u]] :
   v \in ConstantValues, u \in UnitFactors}

H5Datasets(shape) ==
  {[kind |-> "Dataset",
    data |-> [shape |-> shape,
              v |-> [c \in Coords(shape) |-> CellValue(c, dt)],
              dtype |-> dt],
    attrs |-> [unitSI |-> u]] :
   dt \in {"float64", "int64"}, u \in UnitFactors}

\* The lists of distinct axes of a record, each with an index on its axis.
SlicePairs(shape) ==
  UNION {{[pos |-> pos, i |-> i] :
            pos \in {p \in [1..k -> 0..(Len(shape) - 1)] :
                       \A m, n \in 1..k : p[m] = p[n] => m = n},
            i \in [1..k -> 0..2]} : k \in 0..Len(shape)}

\* The constant record of the specification's example.
ExampleGroup ==
  [kind |-> "Group", attrs |-> [value |-> 10, shape |-> <<4, 4>>, unitSI |-> 1]]

GetDataArgs(dset, i_slice, pos_slice, output_type) ==
  [fn |-> "get_data", dset |-> dset, i_slice |-> i_slice,
   pos_slice |-> pos_slice, output_type |-> output_type]

InitData ==
  /\ pc = "call"
  /\ ret = NoRet
  /\ \/ \E axis \in 0..1, i \in {0, 3}, t \in {"int", "list"} :
          args = GetDataArgs(ExampleGroup,
                             IF t = "int" THEN [t |-> "int", v |-> i]
                             ELSE [t |-> "list", v |-> <<i>>],
                             IF t = "int" THEN [t |-> "int", v |-> axis]
                             ELSE [t |-> "list", v |-> <<axis>>],
                             "float64")
     \/ \E ndim \in 1..MaxDim :
          \E dset \in Groups(RecordShape(ndim)) \cup H5Datasets(RecordShape(ndim)),
             output_type \in OutputTypes :
            \/ args = GetDataArgs(dset, NoSlice, NoSlice, output_type)
            \/ \E s \in SlicePairs(RecordShape(ndim)) :
                 /\ \A k \in 1..Len(s.pos) : s.i[k] < AxisSize(s.pos[k] + 1)
                 /\ \/ args = GetDataArgs(dset, [t |-> "list", v |-> s.i],
                                          [t |-> "list", v |-> s.pos],
                                          output_type)
                    \/ /\ Len(s.pos) = 1
                       /\ \E ti, tp \in {"int", "list"} :
                            /\ ti = "int" \/ tp = "int"
                            /\ args = GetDataArgs(
                                 dset,
                                 IF ti = "int" THEN [t |-> "int", v |-> s.i[1]]
                                 ELSE [t |-> "list", v |-> s.i],
                                 IF tp = "int" THEN [t |-> "int", v |-> s.pos[1]]
                                 ELSE [t |-> "list", v |-> s.pos],
                                 output_type)

GetData ==
  /\ pc = "call"
  /\ args.fn = "get_data"
  /\ ret' = get_data(args.dset, args.i_slice, args.pos_slice, args.output_type)
  /\ pc' = "done"
  /\ UNCHANGED args

NextData == GetData

SpecData == InitData /\ [][NextData]_vars

(***************************************************************************)
(* read_openPMD_params, simplify_record  (yt_reader/params_reader.py)      *)
(* read_species_data                     (yt_reader/particle_reader.py)    *)
(*                                                                         *)
(* Keys are strings; prefixes, suffixes and slices are taken character by  *)
(* character, as str.startswith, str.endswith and key[a:b] do.  A dict is  *)
(* a function on its keys.                                                 *)
(***************************************************************************)
excluded_field_keys ==
  <<"cell_volume", "current_", "dx", "dy", "dz", "x", "y", "z",
    "Bx", "By", "Bz", "Ex", "Ey", "Ez", "Jx", "Jy", "Jz">>

excluded_field_roots ==
  <<"current_", "electric_", "magnetic_", "path_element_",
    "relative_magnetic_", "vertex_">>

excluded_particle_keys ==
  <<"particle_position", "mesh_id", "particle_ones", "particle_weight",
    "particle_radius">>

excluded_particle_roots ==
  <<"relative_particle_", "particle_position_relative",
    "particle_positionCoarse_", "particle_positionOffset_",
    "particle_spherical_position_", "particle_position_spherical_",
    "particle_position_cylindrical", "particle_velocity",
    "particle_cylindrical">>

\* s.startswith(root)
StartsWith(s, root) ==
  Len(s) >= Len(root) /\ SubSeq(s, 1, Len(root)) = root

\* s.endswith(root)
EndsWith(s, root) ==
  Len(s) >= Len(root) /\ SubSeq(s, Len(s) - Len(root) + 1, Len(s)) = root

\* s[n:] : the string without its first n characters, whatever they are.
DropFirst(s, n) == SubSeq(s, n + 1, Len(s))

\* s[:-n] : the string without its last n characters.
DropLast(s, n) == SubSeq(s, 1, Len(s) - n)

\* The mesh key is on the denylist (lines 77-78).
ExcludedField(key) ==
  \/ key \in Range(excluded_field_keys)
  \/ \E i \in DOMAIN excluded_field_roots :
       StartsWith(key, excluded_field_roots[i])

\* The key is a component of a vector record (line 83).
HasAxisSuffix(key) == \E root \in {"_x", "_y", "_z"} : EndsWith(key, root)

\* The particle key is on the denylist (lines 128-129).
ExcludedParticle(quantity) ==
  \/ quantity \in Range(excluded_particle_keys)
  \/ \E i \in DOMAIN excluded_particle_roots :
       StartsWith(quantity, excluded_particle_roots[i])

\* The test of line 69 made on nothing: the branch is always taken.
AlwaysEntries(L) == TRUE

\* len(avail_fields) > 0 (line 69)
HasEntries(L) == Len(L) > 0

\* d[k] = v on a dict.
DictSet(d, k, v) ==
  [j \in (DOMAIN d) \cup {k} |-> IF j = k THEN v ELSE d[j]]

EmptyDict == [j \in {} |-> 0]

\* list.remove(item): the list without the first occurrence of item.
ListRemove(L, item) ==
  LET i == CHOOSE j \in DOMAIN L :
             L[j] = item /\ \A h \in 1..(j - 1) : L[h] # item
  IN SubSeq(L, 1, i - 1) \o SubSeq(L, i + 1, Len(L))

\* The replacements of simplify_record, in the order the code tries them.
Replacements ==
  << <<"position_x", "x">>, <<"position_y", "y">>, <<"position_z", "z">>,
     <<"momentum_x", "ux">>, <<"momentum_y", "uy">>, <<"momentum_z", "uz">>,
     <<"weighting", "w">> >>

\* A replacement that keeps the key's place in the list.
ReplaceInPlace(record_comps, raw, short) ==
  [i \in DOMAIN record_comps |->
     IF record_comps[i] = raw THEN short ELSE record_comps[i]]

\* One "if raw in record_comps: remove(raw); append(short)" block.
RemoveAppend(record_comps, raw, short) ==
  IF raw \in Range(record_comps)
  THEN Append(ListRemove(record_comps, raw), short)
  ELSE record_comps

RECURSIVE SimplifyFrom(_, _)
SimplifyFrom(record_comps, k) ==
  IF k > Len(Replacements) THEN record_comps
  ELSE SimplifyFrom(RemoveAppend(record_comps, Replacements[k][1],
                                 Replacements[k][2]), k + 1)

simplify_record(record_comps) == SimplifyFrom(record_comps, 1)

\* The metadata registered with a field (lines 93-101).
FieldMetadata(ds, is_scalar_record) ==
  [geometry |-> ToString(ds.dimensionality) \o "dcartesian",
   avail_circ_modes |-> <<>>,
   axis_labels |-> <<"x", "y", "z">>,
   type |-> IF is_scalar_record THEN "scalar" ELSE "vector"]

\* The loop over the mesh keys (lines 74-104), from key i on; st holds
\* params['avail_fields'] and params['fields_metadata'].
RECURSIVE FieldLoop(_, _, _, _)
FieldLoop(ds, avail_fields, i, st) ==
  IF i > Len(avail_fields) THEN st
  ELSE
    LET key == avail_fields[i]
        suffixed == HasAxisSuffix(key)
        field_name == IF suffixed THEN DropLast(key, 2) ELSE key
        registered == [avail_fields |-> Append(st.avail_fields, field_name),
                       fields_metadata |->
                         DictSet(st.fields_metadata, field_name,
                                 FieldMetadata(ds, ~suffixed))]
    IN IF ExcludedField(key) THEN FieldLoop(ds, avail_fields, i + 1, st)
       ELSE IF suffixed /\ field_name \in Range(st.avail_fields)
            THEN FieldLoop(ds, avail_fields, i + 1, st)
            ELSE FieldLoop(ds, avail_fields, i + 1, registered)

\* The field half of the catalog (lines 67-106).
FieldParams(ds) ==
  LET mesh == SelectSeq(ds.derived_field_list, LAMBDA key : key[1] = "mesh")
      avail_fields == [i \in DOMAIN mesh |-> mesh[i][2]]
      st == FieldLoop(ds, avail_fields, 1,
                      [avail_fields |-> <<>>, fields_metadata |-> EmptyDict])
  IN IF HasEntries(avail_fields)
     THEN [avail_fields |-> <<st.avail_fields>>,
           fields_metadata |-> st.fields_metadata]
     ELSE [avail_fields |-> None]

\* The loop over the particle keys (lines 120-134), from entry i on.
RECURSIVE ParticleLoop(_, _, _, _)
ParticleLoop(ds, avail_species, i, record_components) ==
  IF i > Len(ds.derived_field_list) THEN record_components
  ELSE
    LET key == ds.derived_field_list[i]
        species_name == key[1]
        quantity == key[2]
    IN IF species_name \notin Range(avail_species)
       THEN ParticleLoop(ds, avail_species, i + 1, record_components)
       ELSE IF ExcludedParticle(quantity)
       THEN ParticleLoop(ds, avail_species, i + 1, record_components)
       ELSE ParticleLoop(ds, avail_species, i + 1,
              DictSet(record_components, species_name,
                      Append(record_components[species_name],
                             DropFirst(quantity, Len("particle_")))))

\* The species half of the catalog (lines 109-150).
SpeciesParams(ds) ==
  LET avail_species == SelectSeq(ds.particle_types, LAMBDA key : key # "all")
      raw == ParticleLoop(ds, avail_species, 1,
                          [s \in Range(avail_species) |-> <<>>])
      record_components == [s \in DOMAIN raw |-> simplify_record(raw[s])]
  IN IF Len(avail_species) > 0
     THEN [avail_species |-> <<avail_species>>,
           avail_record_components |-> <<record_components>>,
           avail_ptcl_quantities |-> <<record_components[avail_species[1]]>>]
     ELSE [avail_species |-> None,
           avail_record_components |-> None,
           avail_ptcl_quantities |-> None]

\* The call returns (t, params); params is None when extract_parameters is
\* False, and otherwise the dict with the keys of both halves.
read_openPMD_params(ds, extract_parameters) ==
  IF ~extract_parameters
  THEN [err |-> "none", t |-> ds.current_time, params |-> None]
  ELSE [err |-> "none", t |-> ds.current_time,
        params |-> <<[extensions |-> <<>>] @@ FieldParams(ds)
                       @@ SpeciesParams(ds)>>]

\* The translation table of read_species_data (lines 33-39).
dict_record_comp ==
  [x |-> "position_x", y |-> "position_y", z |-> "position_z",
   ux |-> "momentum_x", uy |-> "momentum_y", uz |-> "momentum_z",
   w |-> "weighting"]

\* The backend key that read_species_data asks for (lines 40-44).
OpmdRecordComp(record_comp) ==
  "particle_" \o (IF record_comp \in DOMAIN dict_record_comp
                  THEN dict_record_comp[record_comp]
                  ELSE record_comp)

\* The call reads ad[(species, key)]: the backend has no such field when the
\* pair is not one of the dataset's fields, and otherwise the data returned
\* is that of the backend field, named in field.
read_species_data(ds, species, record_comp, extensions) ==
  LET field == <<species, OpmdRecordComp(record_comp)>>
  IN IF field \in Range(ds.derived_field_list)
     THEN [err |-> "none", field |-> field,
           species |-> species, record_comp |-> record_comp]
     ELSE [err |-> "YTFieldNotFound", field |-> field,
           species |-> species, record_comp |-> record_comp]

\* Bounds of the calls drawn below.
MaxComps == 3
MaxMeshKeys == 3
MaxPtclKeys == 2

\* The sequences of at most n distinct members of S.
DistinctSeqs(S, n) ==
  UNION {{s \in [1..k -> S] : \A i, j \in 1..k : s[i] = s[j] => i = j} :
           k \in 0..n}

\* Raw particle keys as simplify_record receives them (prefix stripped):
\* the seven keys it recognizes and names it leaves alone, one of them a
\* record of the file that is itself called 'w'.
RawComps ==
  {"position_x", "position_y", "position_z", "momentum_x", "momentum_y",
   "momentum_z", "weighting", "custom_q", "charge", "w"}

ExampleComps ==
  <<"position_x", "position_y", "momentum_z", "weighting", "custom_q">>

\* Mesh keys of a backend listing: vector components, a scalar, a bare key
\* named like a vector's base, and keys of the denylist.
MeshVocab == {"E_x", "E_y", "E", "rho", "dx", "current_x"}

\* Particle keys of a backend listing: openPMD records under the backend's
\* prefix (a record of the file may have any name, among them 'w'), and
\* keys of the denylist.
PtclVocab ==
  {"particle_position_x", "particle_momentum_z", "particle_weighting",
   "particle_charge", "particle_w", "mesh_id", "particle_velocity_x"}

SpeciesNames == {"electrons", "ions"}

ParticleTypes ==
  {<<"all">>, <<"electrons", "all">>, <<"all", "ions", "electrons">>}

\* Mesh listings used while the particle listing varies: no mesh, only
\* keys of the denylist, a vector and a scalar.
MeshListings == {<<>>, <<"dx", "current_x">>, <<"E_x", "rho">>}

\* Particle listings used while the mesh listing varies.
PtclListings ==
  {[particle_types |-> <<"all">>, fields |-> <<>>],
   [particle_types |-> <<"all", "electrons">>,
    fields |-> << <<"all", "particle_position_x">>,
                  <<"electrons", "particle_position_x">> >>]}

Times == {0, 3}

\* ds.derived_field_list for mesh keys and particle (type, key) pairs.
Dataset(dim, time, types, mesh_keys, ptcl_fields) ==
  [dimensionality |-> dim,
   current_time |-> time,
   particle_types |-> types,
   derived_field_list |->
     [i \in DOMAIN mesh_keys |-> <<"mesh", mesh_keys[i]>>] \o ptcl_fields]

InitParams ==
  /\ pc = "call"
  /\ ret = NoRet
  /\ \/ args = [fn |-> "simplify_record", record_comps |-> ExampleComps]
     \/ \E r \in DistinctSeqs(RawComps, MaxComps) :
          args = [fn |-> "simplify_record", record_comps |-> r]
     \/ \E m \in DistinctSeqs(MeshVocab, MaxMeshKeys), p \in PtclListings,
           d \in 1..3, t \in Times, e \in BOOLEAN :
          args = [fn |-> "read_openPMD_params",
                  ds |-> Dataset(d, t, p.particle_types, m, p.fields),
                  extract_parameters |-> e]
     \/ \E f \in DistinctSeqs((SpeciesNames \cup {"all"}) \X PtclVocab,
                              MaxPtclKeys),
           types \in ParticleTypes, m \in MeshListings :
          args = [fn |-> "read_openPMD_params",
                  ds |-> Dataset(3, 0, types, m, f),
                  extract_parameters |-> TRUE]

SimplifyRecord ==
  /\ pc = "call"
  /\ args.fn = "simplify_record"
  /\ ret' = [err |-> "none",
             record_comps |-> simplify_record(args.record_comps)]
  /\ pc' = "done"
  /\ UNCHANGED args

ReadOpenPMDParams ==
  /\ pc = "call"
  /\ args.fn = "read_openPMD_params"
  /\ ret' = read_openPMD_params(args.ds, args.extract_parameters)
  /\ pc' = "done"
  /\ UNCHANGED args

\* A component listed in the catalog just built is read for its species.
ReadSpeciesData ==
  /\ pc = "done"
  /\ args.fn = "read_openPMD_params"
  /\ ~IsNone(ret.params)
  /\ ~IsNone(ret.params[1].avail_record_components)
  /\ \E species \in DOMAIN ret.params[1].avail_record_components[1] :
       \E i \in DOMAIN ret.params[1].avail_record_components[1][species] :
         ret' = read_species_data(
                  args.ds, species,
                  ret.params[1].avail_record_components[1][species][i],
                  ret.params[1].extensions)
  /\ pc' = "read"
  /\ UNCHANGED args

NextParams == SimplifyRecord \/ ReadOpenPMDParams \/ ReadSpeciesData

SpecParams == InitParams /\ [][NextParams]_vars

(***************************************************************************)
(* Properties of apply_selection                                           *)
(***************************************************************************)
SelectionDone == pc = "done" /\ args.fn = "apply_selection"

\* Particle i passes every rule: above each present lower bound and below
\* each present upper bound, strictly.
PassesRules(i) ==
  \A name \in DOMAIN args.select :
    LET q == args.data_reader[name]
        lo == args.select[name][1]
        hi == args.select[name][2]
    IN /\ IsNone(lo) \/ q[i] > lo[1]
       /\ IsNone(hi) \/ q[i] < hi[1]

\* The indices of the particles that pass, in increasing order.
KeptIndices ==
  LET N == Len(args.data_list[1])
  IN SelectSeq([i \in 1..N |-> i], PassesRules)

KeptOf(arr) == [k \in 1..Len(KeptIndices) |-> arr[KeptIndices[k]]]

\* C1: when the first array of data_list has the per-particle length N > 1,
\* the call returns; particle i is kept exactly when it passes every rule
\* (a value equal to a bound is dropped); every array longer than 1 comes
\* back as its kept entries in their order, arrays of length <= 1 come back
\* untouched, the list keeps its length and positions, and all returned
\* arrays longer than 1 have one length.
C1_SelectionKeepsExactlyPassing ==
  (SelectionDone /\ Len(args.data_list[1]) > 1) =>
    /\ ret.err = "none"
    /\ ret.select_array = [i \in 1..Len(args.data_list[1]) |-> PassesRules(i)]
    /\ Len(ret.data_list) = Len(args.data_list)
    /\ \A j \in 1..Len(args.data_list) :
         IF Len(args.data_list[j]) > 1
         THEN ret.data_list[j] = KeptOf(args.data_list[j])
         ELSE ret.data_list[j] = args.data_list[j]
    /\ \A j, k \in 1..Len(ret.data_list) :
         (Len(ret.data_list[j]) > 1 /\ Len(ret.data_list[k]) > 1)
           => Len(ret.data_list[j]) = Len(ret.data_list[k])

\* A call with two rules, a particle dropped only because its value equals a
\* bound, more than one particle kept, and a scalar record in the list.
C1_Witness ==
  /\ SelectionDone
  /\ Len(args.data_list[1]) > 2
  /\ DOMAIN args.select = Quantities
  /\ \E i \in 1..Len(args.data_list[1]) :
       /\ ~PassesRules(i)
       /\ ~IsNone(args.select["x"][1])
       /\ args.data_reader["x"][i] = args.select["x"][1][1]
       /\ args.data_reader["ux"][i] > 1
  /\ ret.err = "none"
  /\ Len(ret.data_list) = 2
  /\ Len(ret.data_list[1]) = 2
  /\ ret.data_list[2] = ScalarRecord

SelectionExampleDone == pc = "done" /\ args = ExampleSelection

\* C2 as stated: the worked example builds the mask [F,F,T,T,F] and returns
\* [[3,4]].
C2_ExampleAsStated ==
  SelectionExampleDone =>
    /\ ret.err = "none"
    /\ ret.select_array = <<FALSE, FALSE, TRUE, TRUE, FALSE>>
    /\ ret.data_list = << <<3, 4>> >>

\* C2 amended: with both bounds strict, q = 3 is not below the upper bound 3,
\* so the worked example builds the mask [F,F,T,F,F] and returns [[3]].
C2_ExampleStrict ==
  SelectionExampleDone =>
    /\ ret.err = "none"
    /\ ret.select_array = <<FALSE, FALSE, TRUE, FALSE, FALSE>>
    /\ ret.data_list = << <<3>> >>

C2_Witness == SelectionExampleDone /\ ret.err = "none"

\* C3 as stated: with no rule, apply_selection raises nothing and returns
\* every array of a valid data_list (arrays of one length, scalar records of
\* length 1 in any position) unchanged.
C3_EmptyRulesIdentity ==
  (SelectionDone /\ DOMAIN args.select = {}) =>
    /\ ret.err = "none"
    /\ ret.data_list = args.data_list

(***************************************************************************)
(* Properties of read_field_cartesian                                      *)
(***************************************************************************)
FieldDone == pc = "done" /\ args.fn = "read_field_cartesian"

\* The slicing directions of the call (none when slicing_dir is None).
Dirs == IF IsNone(args.slicing_dir) THEN <<>> ELSE args.slicing_dir[1]

\* The axes, 0-based, named in the slicing directions.
SlicedAxes == {IndexOf(args.axis_labels, Dirs[k]) : k \in 1..Len(Dirs)}

DistinctDirs == \A j, k \in 1..Len(Dirs) : Dirs[j] = Dirs[k] => j = k

\* Number of cells, in the unsliced grid, of the axis of request k.
CellsOf(k) ==
  args.ds.domain_dimensions[IndexOf(args.axis_labels, Dirs[k]) + 1]

\* The grid metadata of the unsliced field.
UnslicedInfo ==
  [axes |-> args.axis_labels,
   shape |-> args.ds.domain_dimensions,
   grid_spacing |-> CellWidth,
   global_offset |-> args.ds.domain_left_edge,
   grid_unit_si |-> 1,
   grid_position |-> [a \in 1..args.ds.dimensionality |-> 0]]

\* C4 as stated: after any call that returns, the five sequences of the grid
\* metadata have one length, the dimensionality of the dataset minus the
\* number of distinct sliced axes.
C4_ParallelSequences ==
  (FieldDone /\ ret.err = "none") =>
    LET n == args.ds.dimensionality - Cardinality(SlicedAxes)
    IN /\ Len(ret.info.axes) = n
       /\ Len(ret.info.shape) = n
       /\ Len(ret.info.grid_spacing) = n
       /\ Len(ret.info.global_offset) = n
       /\ Len(ret.info.grid_position) = n

\* C5 as stated: with slicing_dir None or an empty list the call returns the
\* full field array in its original shape, axes of one cell included, and
\* the grid metadata of the unsliced field.
C5_EmptySlicingIsIdentity ==
  (FieldDone /\ Len(Dirs) = 0) =>
    /\ ret.err = "none"
    /\ ret.F = FullArray(args.ds.domain_dimensions)
    /\ ShapeOf(ret.F) = args.ds.domain_dimensions
    /\ ret.info = UnslicedInfo

C7_IndexIsRounded ==
  (FieldDone /\ ~IsNone(args.slicing_dir)) =>
    \A k \in 1..Len(ret.i_cells) :
      ret.i_cells[k] =
        Min(Max(RoundedCell(args.slicing[1][k], CellsOf(k)), 0), CellsOf(k) - 1)

\* C7 amended: the index of each request is the integer part (truncation,
\* not rounding) of v = 0.5 * (position + 1) * n_cells, clamped to
\* [0, n_cells - 1], n_cells being the size of the axis in the unsliced
\* shape: 0 when v < 0, n_cells - 1 when v >= n_cells, and otherwise the
\* integer i with i <= v < i + 1.
C7_IndexIsTruncated ==
  (FieldDone /\ ~IsNone(args.slicing_dir)) =>
    \A k \in 1..Len(ret.i_cells) :
      LET n_cells == CellsOf(k)
          den == 2 * PosDen
          num == (args.slicing[1][k] + PosDen) * n_cells
          i == ret.i_cells[k]
      IN /\ num < 0 => i = 0
         /\ num >= den * n_cells => i = n_cells - 1
         /\ (0 <= num /\ num < den * n_cells) =>
              (den * i <= num /\ num < den * (i + 1))

\* A request where truncation and rounding differ: 0.25 on three cells is
\* v = 1.875, index 1.
C7_Witness ==
  /\ FieldDone
  /\ ret.err = "none"
  /\ Len(Dirs) = 1
  /\ args.slicing[1][1] = 1
  /\ CellsOf(1) = 3
  /\ ret.i_cells[1] = 1

(***************************************************************************)
(* Properties of get_data                                                  *)
(***************************************************************************)
DataDone == pc = "done" /\ args.fn = "get_data"

\* The slice directions and indices of the call, as lists.
SlicedPos ==
  IF args.pos_slice.t = "None" THEN <<>>
  ELSE IF args.pos_slice.t = "int" THEN <<args.pos_slice.v>>
  ELSE args.pos_slice.v
SlicedIdx ==
  IF args.i_slice.t = "None" THEN <<>>
  ELSE IF args.i_slice.t = "int" THEN <<args.i_slice.v>>
  ELSE args.i_slice.v

FixedAxes == Range(SlicedPos)

\* The declared shape of the record read.
DeclaredShape ==
  IF args.dset.kind = "Group" THEN args.dset.attrs.shape
  ELSE args.dset.data.shape

\* The k-th axis, 0-based, that is not sliced.
KeptAxis(k) ==
  CHOOSE a \in 0..(Len(DeclaredShape) - 1) :
    /\ a \notin FixedAxes
    /\ Cardinality({b \in 0..(a - 1) : b \notin FixedAxes}) = k - 1

\* The declared shape with exactly the sliced axes removed.
ExpectedShape ==
  [k \in 1..(Len(DeclaredShape) - Cardinality(FixedAxes)) |->
     DeclaredShape[KeptAxis(k) + 1]]

\* The coordinate, in the record, of entry c of the result: a sliced axis at
\* its index, the other axes at the entries of c in order.
SourceCoord(c) ==
  [a \in 1..Len(DeclaredShape) |->
     IF (a - 1) \in FixedAxes
     THEN SlicedIdx[CHOOSE k \in 1..Len(SlicedPos) : SlicedPos[k] = a - 1]
     ELSE c[1 + Cardinality({b \in 0..(a - 2) : b \notin FixedAxes})]]

\* The value on file behind entry c of the result.
RawValue(c) ==
  IF args.dset.kind = "Group" THEN args.dset.attrs.value
  ELSE args.dset.data.v[SourceCoord(c)]

\* t is x without its fraction: a whole number, no further from zero than x,
\* less than one away from it.
IsIntegerPart(t, x) ==
  /\ t % ValDen = 0
  /\ IF x >= 0 THEN t <= x /\ x < t + ValDen ELSE t >= x /\ x > t - ValDen

Reordered(f) ==
  get_data(args.dset,
           [t |-> "list", v |-> [k \in 1..Len(SlicedIdx) |-> SlicedIdx[f[k]]]],
           [t |-> "list", v |-> [k \in 1..Len(SlicedPos) |-> SlicedPos[f[k]]]],
           args.output_type)

PairOrders(n) ==
  {f \in [1..n -> 1..n] : \A j, k \in 1..n : f[j] = f[k] => j = k}

\* C9: on an array record with a non-empty list of distinct axes, each with
\* an index on it, the result is the record with every listed axis fixed at
\* its index and every other axis in full: the shape is the record's with
\* the listed axes removed, in order, every entry is the entry the full
\* read gives at that place, the order of the pairs does not matter, and an
\* axis or index that is not a list acts as the one-element list.
C9_ArraySlice ==
  (DataDone /\ args.dset.kind = "Dataset" /\ Len(SlicedPos) > 0) =>
    LET full == get_data(args.dset, NoSlice, NoSlice, args.output_type)
    IN /\ ret.err = "none"
       /\ ret.data.shape = ExpectedShape
       /\ Len(ret.data.shape) = Len(DeclaredShape) - Len(SlicedPos)
       /\ DOMAIN ret.data.v = Coords(ExpectedShape)
       /\ \A c \in DOMAIN ret.data.v :
            ret.data.v[c] = full.data.v[SourceCoord(c)]
       /\ \A f \in PairOrders(Len(SlicedPos)) : Reordered(f) = ret
       /\ ret = get_data(args.dset, [t |-> "list", v |-> SlicedIdx],
                         [t |-> "list", v |-> SlicedPos], args.output_type)

\* Two axes of a three-dimensional record fixed, the later axis listed
\* first: the middle axis is what remains.
C9_Witness ==
  /\ DataDone
  /\ args.dset.kind = "Dataset"
  /\ Len(DeclaredShape) = 3
  /\ SlicedPos = <<2, 0>>
  /\ SlicedIdx = <<0, 1>>
  /\ ret.err = "none"
  /\ ret.data.shape = <<3>>
  /\ ret.data.v[<<2>>] = args.dset.data.v[<<1, 2, 0>>] * args.dset.attrs.unitSI

\* C10: for a floating output type every returned value is the value on
\* file times unitSI (so the value itself when unitSI is 1.0); for another
\* output type it is the value on file converted to that type, whatever
\* unitSI is; and the record is left as it was.
C10_UnitScaling ==
  (DataDone /\ ret.err = "none") =>
    /\ \A c \in DOMAIN ret.data.v :
         IF args.output_type \in {"float64", "float32", "float16"}
         THEN ret.data.v[c] = RawValue(c) * args.dset.attrs.unitSI
         ELSE IsIntegerPart(ret.data.v[c], RawValue(c))
    /\ ret.dset = args.dset

\* A float16 read of an array record with unitSI 2.0.
C10_Witness ==
  /\ DataDone
  /\ ret.err = "none"
  /\ args.dset.kind = "Dataset"
  /\ args.dset.attrs.unitSI = 2
  /\ args.output_type = "float16"
  /\ args.pos_slice.t = "None"
  /\ Len(DeclaredShape) = 2
  /\ ret.data.v[<<1, 2>>] = 2 * args.dset.data.v[<<1, 2>>]
  /\ args.dset.data.v[<<1, 2>>] # 0

(***************************************************************************)
(* Properties of simplify_record                                           *)
(***************************************************************************)
SimplifyDone == pc = "done" /\ args.fn = "simplify_record"

\* The short names, in the order the code processes them.
CanonicalOrder == <<"x", "y", "z", "ux", "uy", "uz", "w">>

\* The raw key behind each short name.
RawKeyOf ==
  [x |-> "position_x", y |-> "position_y", z |-> "position_z",
   ux |-> "momentum_x", uy |-> "momentum_y", uz |-> "momentum_z",
   w |-> "weighting"]

RecognizedRaw == {RawKeyOf[c] : c \in DOMAIN RawKeyOf}

\* The unrecognized keys of the input in their order, then the short names
\* of the recognized keys that occur in it, in the processing order.
ExpectedComps ==
  SelectSeq(args.record_comps, LAMBDA k : k \notin RecognizedRaw)
    \o SelectSeq(CanonicalOrder,
                 LAMBDA c : RawKeyOf[c] \in Range(args.record_comps))

\* C11: for a list of distinct raw keys, simplify_record returns the
\* unrecognized keys in discovery order followed by the short forms of the
\* recognized keys in the order x, y, z, ux, uy, uz, w, wherever they were
\* found; the output is as long as the input and holds no recognized raw
\* key; ['position_x','position_y','momentum_z','weighting','custom_q']
\* gives ['custom_q','x','y','uz','w'].
C11_SimplifyRecordOrder ==
  SimplifyDone =>
    /\ ret.err = "none"
    /\ ret.record_comps = ExpectedComps
    /\ Len(ret.record_comps) = Len(args.record_comps)
    /\ Range(ret.record_comps) \cap RecognizedRaw = {}
    /\ args.record_comps = ExampleComps =>
         ret.record_comps = <<"custom_q", "x", "y", "uz", "w">>

\* The worked example has run: recognized keys found before an unrecognized
\* one have moved behind it.
C11_Witness ==
  /\ SimplifyDone
  /\ args.record_comps = ExampleComps
  /\ ret.record_comps = <<"custom_q", "x", "y", "uz", "w">>

(***************************************************************************)
(* Properties of read_openPMD_params                                       *)
(***************************************************************************)
\* A call that built the catalog has returned.
ParamsDone ==
  pc = "done" /\ args.fn = "read_openPMD_params" /\ args.extract_parameters

\* The mesh keys the backend lists, in its order.
MeshKeysOf(ds) ==
  LET mesh == SelectSeq(ds.derived_field_list, LAMBDA key : key[1] = "mesh")
  IN [i \in DOMAIN mesh |-> mesh[i][2]]

\* The mesh keys that the denylist lets through.
KeptMeshKeys(ds) == {k \in Range(MeshKeysOf(ds)) : ~ExcludedField(k)}

\* The name a kept mesh key is registered under.
CanonicalField(k) == IF HasAxisSuffix(k) THEN DropLast(k, 2) ELSE k

NoDuplicates(L) == \A i, j \in DOMAIN L : L[i] = L[j] => i = j

\* C12 as stated: whatever the order of the mesh keys, avail_fields lists
\* no name twice, the keys base_x, base_y, base_z give one descriptor named
\* base of type vector, and a key without such a suffix is registered as a
\* scalar under its own name, also when a bare key named like a vector's
\* base is listed together with the suffixed keys.
C12_FieldsRegisteredOnce ==
  (ParamsDone /\ KeptMeshKeys(args.ds) # {}) =>
    LET params == ret.params[1]
        L == params.avail_fields[1]
    IN /\ NoDuplicates(L)
       /\ \A k \in KeptMeshKeys(args.ds) :
            /\ CanonicalField(k) \in Range(L)
            /\ params.fields_metadata[CanonicalField(k)].type =
                 (IF HasAxisSuffix(k) THEN "vector" ELSE "scalar")

\* The same statement for listings in which no bare key is named like the
\* base of a listed vector: it holds there.
C12_HoldsWithoutBareBase ==
  (/\ ParamsDone
   /\ KeptMeshKeys(args.ds) # {}
   /\ \A k, b \in KeptMeshKeys(args.ds) :
        HasAxisSuffix(k) => b # DropLast(k, 2)) =>
    LET params == ret.params[1]
        L == params.avail_fields[1]
    IN /\ NoDuplicates(L)
       /\ \A k \in KeptMeshKeys(args.ds) :
            /\ CanonicalField(k) \in Range(L)
            /\ params.fields_metadata[CanonicalField(k)].type =
                 (IF HasAxisSuffix(k) THEN "vector" ELSE "scalar")

\* The species the backend lists, 'all' left out.
SpeciesOf(ds) == SelectSeq(ds.particle_types, LAMBDA key : key # "all")

\* The particle keys of a species that the denylist lets through, in the
\* backend's order.
KeptParticleKeys(ds, s) ==
  LET mine == SelectSeq(ds.derived_field_list,
                        LAMBDA key : key[1] = s /\ ~ExcludedParticle(key[2]))
  IN [i \in DOMAIN mine |-> mine[i][2]]

\* The field half of the catalog is what the mesh keys alone make it: the
\* registered names are those of the kept keys, each with its descriptor.
FieldHalfBuilt(params, ds) ==
  /\ ~IsNone(params.avail_fields)
  /\ Range(params.avail_fields[1]) =
       {CanonicalField(k) : k \in KeptMeshKeys(ds)}
  /\ DOMAIN params.fields_metadata = Range(params.avail_fields[1])

\* The species half of the catalog is what the particle listing alone
\* makes it: the species in their order, one component per kept key of the
\* species, and the components of the first species as avail_ptcl_quantities.
SpeciesHalfBuilt(params, ds) ==
  /\ params.avail_species = <<SpeciesOf(ds)>>
  /\ ~IsNone(params.avail_record_components)
  /\ DOMAIN params.avail_record_components[1] = Range(SpeciesOf(ds))
  /\ \A s \in Range(SpeciesOf(ds)) :
       Len(params.avail_record_components[1][s]) =
         Len(KeptParticleKeys(ds, s))
  /\ params.avail_ptcl_quantities =
       <<params.avail_record_components[1][SpeciesOf(ds)[1]]>>

\* C13: a dataset with no mesh record, or with no species besides 'all',
\* makes read_openPMD_params raise nothing: avail_fields is None when there
\* is no mesh; avail_species, avail_record_components and
\* avail_ptcl_quantities are None when there is no species; the other half
\* of the catalog is built as usual.  When every listed mesh key is on the
\* denylist nothing is raised either, avail_fields is the empty list and
\* the species half is built as usual.
C13_EmptyCatalogIsNoError ==
  ParamsDone =>
    LET params == ret.params[1]
        ds == args.ds
        no_mesh == Len(MeshKeysOf(ds)) = 0
        no_species == Len(SpeciesOf(ds)) = 0
        all_denied == ~no_mesh /\ KeptMeshKeys(ds) = {}
    IN /\ ret.err = "none"
       /\ no_mesh =>
            /\ IsNone(params.avail_fields)
            /\ ~no_species => SpeciesHalfBuilt(params, ds)
       /\ no_species =>
            /\ IsNone(params.avail_species)
            /\ IsNone(params.avail_record_components)
            /\ IsNone(params.avail_ptcl_quantities)
            /\ ~no_mesh => FieldHalfBuilt(params, ds)
       /\ all_denied =>
            /\ params.avail_fields = <<(<<>>)>>
            /\ params.fields_metadata = EmptyDict
            /\ ~no_species => SpeciesHalfBuilt(params, ds)

\* A listing without mesh records whose species have components: the field
\* entry is None and the species half is filled.
C13_Witness ==
  /\ ParamsDone
  /\ Len(MeshKeysOf(args.ds)) = 0
  /\ IsNone(ret.params[1].avail_fields)
  /\ Len(SpeciesOf(args.ds)) = 2
  /\ \E s \in Range(SpeciesOf(args.ds)) :
       Len(ret.params[1].avail_record_components[1][s]) > 0

(***************************************************************************)
(* The field array against its grid metadata (read_field_cartesian)        *)
(***************************************************************************)
\* C14 as stated: after any read_field_cartesian call that returns, the
\* shape of the returned array is the shape recorded in the returned grid
\* metadata, for every original shape (an unsliced axis of exactly one
\* cell included) and every list of slicing directions.
C14_ArrayShapeIsInfoShape ==
  (FieldDone /\ ret.err = "none") => ShapeOf(ret.F) = ret.info.shape

(***************************************************************************)
(* Component names between the catalog and read_species_data               *)
(***************************************************************************)
\* read_species_data has been called with a name of the catalog.
SpeciesRead == pc = "read"

\* The name the catalog publishes for the backend key K: what the species
\* loop and simplify_record make of K.
PublishedFor(K) == simplify_record(<<DropFirst(K, Len("particle_"))>>)[1]

\* C15 as stated: for every species and every backend particle key K that
\* the catalog keeps, the name published for K is listed in
\* avail_record_components, and read_species_data translates it back to
\* exactly K, so that every listed name can be read and resolves to the
\* quantity it was derived from.
C15_NameRoundTrip ==
  /\ ParamsDone =>
       \A s \in Range(SpeciesOf(args.ds)) :
         \A i \in DOMAIN KeptParticleKeys(args.ds, s) :
           PublishedFor(KeptParticleKeys(args.ds, s)[i]) \in
             Range(ret.params[1].avail_record_components[1][s])
  /\ SpeciesRead =>
       /\ ret.err = "none"
       /\ \A i \in DOMAIN KeptParticleKeys(args.ds, ret.species) :
            LET K == KeptParticleKeys(args.ds, ret.species)[i]
            IN PublishedFor(K) = ret.record_comp =>
                 ret.field = <<ret.species, K>>

\* The same round trip for listings whose kept keys do not, once the prefix
\* is stripped, read as one of the short names themselves: it holds there.
C15_HoldsWithoutShortNamedRecord ==
  (/\ SpeciesRead
   /\ \A i \in DOMAIN KeptParticleKeys(args.ds, ret.species) :
        DropFirst(KeptParticleKeys(args.ds, ret.species)[i],
                  Len("particle_")) \notin Range(CanonicalOrder)) =>
    /\ ret.err = "none"
    /\ \A i \in DOMAIN KeptParticleKeys(args.ds, ret.species) :
         LET K == KeptParticleKeys(args.ds, ret.species)[i]
         IN PublishedFor(K) = ret.record_comp =>
              ret.field = <<ret.species, K>>

====
